---- MODULE Spec2Model ----
\* Model of event-driven-architecture/app.go: the EventBus (Register, Dispatch),
\* the ChatServer (Start, onNewConnection, onDisconnected, onMessageReceived),
\* the Client reader loop (Client.Start) and main.
\*
\* Six specifications share the variables:
\*   Spec        the program as main runs it (main -> ChatServer.Start);
\*   FairSpec    Spec with weak fairness on the server's own steps;
\*   SpecBus     an EventBus driven through its API (Register, Dispatch);
\*   SpecServer  a ChatServer wired as Start lines 87-89 wire it, driven by
\*               Dispatch calls on its bus;
\*   SpecClient  the wired ChatServer with Client.Start goroutines run on
\*               connections (Client.Start has no caller in main's call graph);
\*   SpecStream  reader loops of which one has its byte stream recorded.
EXTENDS Integers, Sequences, FiniteSets, TLC

\* ---------------------------------------------------------------- bounds
NumConns == 3          \* connection handles are 1..NumConns
MaxAcceptErrors == 2   \* failed Accept calls per run
MaxBuf == 2            \* bytes a peer may have in flight on one connection
MaxRegs == 3           \* Register calls in SpecBus
MaxMsgLen == 1         \* length of a message payload dispatched through the API
NumReaders == 2        \* connections 1..NumReaders get a Client.Start goroutine
BufSize == 2           \* read chunk, stands for make([]byte, 1024)
MaxStream == 3         \* bytes one reader loop reads over its lifetime

Conns == 1..NumConns
Bytes == {0, 1}
\* byte strings of length 1..n
RECURSIVE Strings(_)
Strings(n) ==
    IF n = 0 THEN {}
    ELSE Strings(n - 1) \cup [1..n -> Bytes]
Msgs == Strings(MaxMsgLen)
TestHandlers == {"h1", "h2"}
ServerTypes == {"new-connection", "disconnected", "message-received"}
EventTypes == ServerTypes \cup {"other"}

VARIABLES
    pc,        \* position of main / ChatServer.Start
    handlers,  \* EventBus.handlers : event type -> sequence of handlers
    clients,   \* ChatServer.clients : set of registered connections
    pending,   \* connections peers have opened that Accept has not returned yet
    accepted,  \* connections the transport has produced so far
    inbuf,     \* per connection: bytes sent by the peer, not yet read
    closed,    \* connections whose peer has closed the stream
    nerr,      \* number of failed Accept calls so far
    rpc,       \* per connection: position of its Client.Start goroutine
    regd,      \* history: per event type, the handlers in the order registered
    life,      \* history: per connection the transport produced, over its lifetime:
               \*   the events handled for it, the bytes read, the payloads dispatched
    last       \* history: the last operation, its inputs, pre-state and effects

vars == <<pc, handlers, clients, pending, accepted, inbuf, closed, nerr, rpc, regd, life, last>>

\* ------------------------------------------------------------ data model
\* Event.Data is interface{}: a value tagged with its dynamic type.
ConnData(c) == <<"conn", c>>
StrData(s) == <<"string", s>>
NoData == <<"none", 0>>
\* event.Data.(net.Conn) and event.Data.(string)
AsConn(d) == d[2]
AsString(d) == d[2]
\* string(buf) : the whole buffer, past the n bytes read
StringOf_whole(buf, n) == buf
\* string(buf[:n]) : the first n bytes of the buffer
StringOf(buf, n) == SubSeq(buf, 1, n)
\* []byte(msg) : the bytes of the string
BytesOf(msg) == [i \in 1..Len(msg) |-> msg[i]]

\* make(map[string][]EventHandler)
EmptyMap == [t \in {} |-> <<>>]
\* eb.handlers[eventType] : a missing key reads as the nil slice
Lookup(h, eventType) == IF eventType \in DOMAIN h THEN h[eventType] ELSE <<>>

\* Effects recorded by an operation, in order.
CallEv(h, event, depth) ==
    [k |-> "call", h |-> h, type |-> event.Type, data |-> event.Data, depth |-> depth]
\* reg is the registry at the moment of the Write
WriteEv(c, bytes, ok, reg) ==
    [k |-> "write", conn |-> c, bytes |-> bytes, ok |-> ok, reg |-> reg]
PrintEv(text, c) == [k |-> "print", text |-> text, conn |-> c]

\* The state the handlers work on.
St(h, cl) == [handlers |-> h, clients |-> cl, ev |-> <<>>]
Log(st, e) == [st EXCEPT !.ev = Append(@, e)]

\* ------------------------------------------------------------- EventBus
\* handlers = append([]EventHandler{handler}, handlers...)
Register_prepend(h, eventType, handler) ==
    [t \in DOMAIN h \cup {eventType} |->
        IF t = eventType THEN <<handler>> \o Lookup(h, eventType) ELSE h[t]]

Register(h, eventType, handler) ==
    [t \in DOMAIN h \cup {eventType} |->
        IF t = eventType THEN Append(Lookup(h, eventType), handler) ELSE h[t]]

onNewConnection(st, event) ==
    LET conn == AsConn(event.Data)
    IN Log([st EXCEPT !.clients = @ \cup {conn}],
           PrintEv("New connection from", conn))

\* the delete is missing
onDisconnected_keep(st, event) ==
    LET conn == AsConn(event.Data)
    IN Log(st, PrintEv("Disconnected from", conn))

onDisconnected(st, event) ==
    LET conn == AsConn(event.Data)
    IN Log([st EXCEPT !.clients = @ \ {conn}],
           PrintEv("Disconnected from", conn))

RECURSIVE Dispatch(_, _, _, _, _, _)
RECURSIVE RunHandlers(_, _, _, _, _, _)
RECURSIVE Range(_, _, _, _, _, _)

\* the loop ends at the first failed Write (break after the Dispatch)
RECURSIVE Range_break(_, _, _, _, _, _)
Range_break(st, rest, msg, depth, order, fail) ==
    IF rest = <<>> THEN st
    ELSE LET conn == Head(rest)
         IN IF conn \notin st.clients
            THEN Range_break(st, Tail(rest), msg, depth, order, fail)
            ELSE LET ok == conn \notin fail
                     st1 == Log(st, WriteEv(conn, BytesOf(msg), ok, st.clients))
                 IN IF ok THEN Range_break(st1, Tail(rest), msg, depth, order, fail)
                    ELSE Dispatch(st1, "disconnected", ConnData(conn),
                                  depth + 1, order, fail)

\* the disconnected dispatch of a failed Write runs after the loop has moved on
\* (go cs.eventBus.Dispatch(...))
RECURSIVE Range_deferred(_, _, _, _, _, _)
Range_deferred(st, rest, msg, depth, order, fail) ==
    IF rest = <<>> THEN st
    ELSE LET conn == Head(rest)
         IN IF conn \notin st.clients
            THEN Range_deferred(st, Tail(rest), msg, depth, order, fail)
            ELSE LET ok == conn \notin fail
                     st1 == Log(st, WriteEv(conn, BytesOf(msg), ok, st.clients))
                     st2 == Range_deferred(st1, Tail(rest), msg, depth, order, fail)
                 IN IF ok THEN st2
                    ELSE Dispatch(st2, "disconnected", ConnData(conn),
                                  depth + 1, order, fail)

\* for conn := range cs.clients { Write; if err != nil { Dispatch(disconnected) } }
\* order is the iteration order the map range produces; an entry deleted
\* before it is reached is not produced.  fail is the set of connections
\* whose Write returns an error.
Range(st, rest, msg, depth, order, fail) ==
    IF rest = <<>> THEN st
    ELSE LET conn == Head(rest)
         IN IF conn \notin st.clients
            THEN Range(st, Tail(rest), msg, depth, order, fail)
            ELSE LET ok == conn \notin fail
                     st1 == Log(st, WriteEv(conn, BytesOf(msg), ok, st.clients))
                     st2 == IF ok THEN st1
                            ELSE Dispatch(st1, "disconnected", ConnData(conn),
                                          depth + 1, order, fail)
                 IN Range(st2, Tail(rest), msg, depth, order, fail)

\* the first connection the range produces is not written to
onMessageReceived_skip(st, event, depth, order, fail) ==
    LET msg == AsString(event.Data)
    IN Range(st, IF order = <<>> THEN order ELSE Tail(order), msg, depth, order, fail)

onMessageReceived(st, event, depth, order, fail) ==
    LET msg == AsString(event.Data)
    IN Range(st, order, msg, depth, order, fail)

\* handler(event)
Call(st, h, event, depth, order, fail) ==
    LET st1 == Log(st, CallEv(h, event, depth))
    IN CASE h = "onNewConnection" -> onNewConnection(st1, event)
         [] h = "onDisconnected" -> onDisconnected(st1, event)
         [] h = "onMessageReceived" -> onMessageReceived(st1, event, depth, order, fail)
         [] OTHER -> st1

RunHandlers(st, hs, event, depth, order, fail) ==
    IF hs = <<>> THEN st
    ELSE RunHandlers(Call(st, Head(hs), event, depth, order, fail),
                     Tail(hs), event, depth, order, fail)

\* the slice read from the map is stored back: eb.handlers[eventType] = handlers
Dispatch_store(st, eventType, data, depth, order, fail) ==
    LET event == [Type |-> eventType, Data |-> data]
        hs == Lookup(st.handlers, eventType)
        st1 == [st EXCEPT !.handlers =
                   [t \in DOMAIN st.handlers \cup {eventType} |-> Lookup(st.handlers, t)]]
    IN RunHandlers(st1, hs, event, depth, order, fail)

Dispatch(st, eventType, data, depth, order, fail) ==
    LET event == [Type |-> eventType, Data |-> data]
        hs == Lookup(st.handlers, eventType)
    IN RunHandlers(st, hs, event, depth, order, fail)

\* The iteration orders a range over the registry cl can take.
Orders(cl) ==
    {o \in [1..Cardinality(cl) -> cl] :
        \A i, j \in 1..Cardinality(cl) : i # j => o[i] # o[j]}
NoOrder == <<>>

\* ------------------------------------------------------- history record
SameData(a, b) == a[1] = b[1] /\ a[2] = b[2]
\* again: the operation before this one was the same operation on the same input
Op(name, by, type, data, order, fail, st) ==
    [op |-> name, by |-> by, type |-> type, data |-> data, order |-> order,
     fail |-> fail, pre |-> clients, preH |-> handlers, ev |-> st.ev,
     again |-> (last.op = name /\ last.by = by /\ last.type = type
                /\ SameData(last.data, data))]
NoOp == [op |-> "none", by |-> 0, type |-> "none", data |-> NoData, order |-> NoOrder,
         fail |-> {}, pre |-> {}, preH |-> EmptyMap, ev |-> <<>>, again |-> FALSE]

NoRegs == [t \in EventTypes |-> <<>>]

NoLife == [c \in Conns |-> [newc |-> 0, disc |-> 0, rd |-> <<>>, pay |-> <<>>]]
\* how often handler h was called for connection c in ev
Handled(ev, h, c) ==
    Cardinality({i \in 1..Len(ev) :
        ev[i].k = "call" /\ ev[i].h = h /\ AsConn(ev[i].data) = c})
\* the payloads of the message-received events handled in ev, concatenated
RECURSIVE Payload(_)
Payload(ev) ==
    IF ev = <<>> THEN <<>>
    ELSE (IF Head(ev).k = "call" /\ Head(ev).h = "onMessageReceived"
          THEN AsString(Head(ev).data) ELSE <<>>) \o Payload(Tail(ev))
\* the events of one operation added to the lifetime history of the
\* connections in acc
Tally(l, ev, acc) ==
    [c \in Conns |->
        IF c \in acc
        THEN [l[c] EXCEPT !.newc = @ + Handled(ev, "onNewConnection", c),
                          !.disc = @ + Handled(ev, "onDisconnected", c)]
        ELSE l[c]]

\* ------------------------------------------------ the program: main/Start
Init ==
    /\ pc = "main"
    /\ handlers = EmptyMap
    /\ clients = {}
    /\ pending = {}
    /\ accepted = {}
    /\ inbuf = [c \in Conns |-> <<>>]
    /\ closed = {}
    /\ nerr = 0
    /\ rpc = [c \in Conns |-> "none"]
    /\ regd = NoRegs
    /\ life = NoLife
    /\ last = NoOp

\* net.Listen succeeds
Listen ==
    /\ pc = "main"
    /\ pc' = "reg1"
    /\ last' = Op("Listen", 0, "none", NoData, NoOrder, {},
                  Log(St(handlers, clients), PrintEv("Listening on port", 0)))
    /\ UNCHANGED <<handlers, clients, pending, accepted, inbuf, closed, nerr, rpc, regd, life>>

\* the error of net.Listen is ignored and Start goes on
ListenFail_ignore ==
    /\ pc = "main"
    /\ pc' = "reg1"
    /\ last' = Op("ListenFail", 0, "none", NoData, NoOrder, {}, St(handlers, clients))
    /\ UNCHANGED <<handlers, clients, pending, accepted, inbuf, closed, nerr, rpc, regd, life>>

\* net.Listen fails: Start returns the error
ListenFail ==
    /\ pc = "main"
    /\ pc' = "returned"
    /\ last' = Op("ListenFail", 0, "none", NoData, NoOrder, {}, St(handlers, clients))
    /\ UNCHANGED <<handlers, clients, pending, accepted, inbuf, closed, nerr, rpc, regd, life>>

\* main: if err != nil { Printf("Error starting server") }, then main returns
MainReport ==
    /\ pc = "returned"
    /\ pc' = "exited"
    /\ last' = Op("MainReport", 0, "none", NoData, NoOrder, {},
                  Log(St(handlers, clients), PrintEv("Error starting server", 0)))
    /\ UNCHANGED <<handlers, clients, pending, accepted, inbuf, closed, nerr, rpc, regd, life>>

StartRegister(at, eventType, handler, next) ==
    /\ pc = at
    /\ pc' = next
    /\ handlers' = Register(handlers, eventType, handler)
    /\ regd' = [regd EXCEPT ![eventType] = Append(@, handler)]
    /\ last' = Op("Register", 0, eventType, NoData, NoOrder, {}, St(handlers, clients))
    /\ UNCHANGED <<clients, pending, accepted, inbuf, closed, nerr, rpc, life>>

RegisterNewConnection ==
    StartRegister("reg1", "new-connection", "onNewConnection", "reg2")
\* onDisconnected is registered under the wrong event type
RegisterDisconnected_wrongtype ==
    StartRegister("reg2", "new-connection", "onDisconnected", "reg3")
RegisterDisconnected ==
    StartRegister("reg2", "disconnected", "onDisconnected", "reg3")
RegisterMessageReceived ==
    StartRegister("reg3", "message-received", "onMessageReceived", "accept")

\* the accepted connection is announced twice
AcceptOk_twice ==
    /\ pc = "accept"
    /\ \E conn \in pending :
        LET st1 == Dispatch(St(handlers, clients), "new-connection", ConnData(conn),
                            0, NoOrder, {})
            st == Dispatch(st1, "new-connection", ConnData(conn), 0, NoOrder, {})
        IN /\ accepted' = accepted \cup {conn}
           /\ pending' = pending \ {conn}
           /\ clients' = st.clients
           /\ handlers' = st.handlers
           /\ life' = Tally(life, st.ev, accepted')
           /\ last' = Op("AcceptOk", 0, "new-connection", ConnData(conn), NoOrder, {}, st)
    /\ pc' = "accept"
    /\ UNCHANGED <<inbuf, closed, nerr, rpc, regd>>

\* listener.Accept() returns a new connection: Dispatch("new-connection", conn)
AcceptOk ==
    /\ pc = "accept"
    /\ \E conn \in pending :
        LET st == Dispatch(St(handlers, clients), "new-connection", ConnData(conn),
                           0, NoOrder, {})
        IN /\ accepted' = accepted \cup {conn}
           /\ pending' = pending \ {conn}
           /\ clients' = st.clients
           /\ handlers' = st.handlers
           /\ life' = Tally(life, st.ev, accepted')
           /\ last' = Op("AcceptOk", 0, "new-connection", ConnData(conn), NoOrder, {}, st)
    /\ pc' = "accept"
    /\ UNCHANGED <<inbuf, closed, nerr, rpc, regd>>

\* a failed Accept ends the loop: Start returns the error
AcceptFail_return ==
    /\ pc = "accept"
    /\ nerr < MaxAcceptErrors
    /\ nerr' = nerr + 1
    /\ pc' = "returned"
    /\ last' = Op("AcceptFail", 0, "none", NoData, NoOrder, {},
                  Log(St(handlers, clients), PrintEv("Error accepting connection", 0)))
    /\ UNCHANGED <<handlers, clients, pending, accepted, inbuf, closed, rpc, regd, life>>

\* listener.Accept() returns an error: Printf, continue
AcceptFail ==
    /\ pc = "accept"
    /\ nerr < MaxAcceptErrors
    /\ nerr' = nerr + 1
    /\ pc' = "accept"
    /\ last' = Op("AcceptFail", 0, "none", NoData, NoOrder, {},
                  Log(St(handlers, clients), PrintEv("Error accepting connection", 0)))
    /\ UNCHANGED <<handlers, clients, pending, accepted, inbuf, closed, rpc, regd, life>>

\* a peer opens a connection to the listening endpoint
PeerConnect ==
    \E c \in Conns \ (pending \cup accepted) :
        /\ pc \in {"reg1", "reg2", "reg3", "accept"}
        /\ pending' = pending \cup {c}
        /\ UNCHANGED <<pc, handlers, clients, accepted, inbuf, closed, nerr, rpc, regd, life, last>>

\* the peer of an accepted connection sends one byte
PeerSend ==
    \E c \in accepted, b \in Bytes :
        /\ c \notin closed
        /\ Len(inbuf[c]) < MaxBuf
        /\ inbuf' = [inbuf EXCEPT ![c] = Append(@, b)]
        /\ UNCHANGED <<pc, handlers, clients, pending, accepted, closed, nerr, rpc, regd, life, last>>

\* the peer of an accepted connection closes its stream
PeerClose ==
    \E c \in accepted \ closed :
        /\ closed' = closed \cup {c}
        /\ UNCHANGED <<pc, handlers, clients, pending, accepted, inbuf, nerr, rpc, regd, life, last>>

\* The steps the server takes on its own: Accept blocks until a connection
\* is pending, and whether it fails is up to the transport.
ServerStep ==
    \/ Listen
    \/ ListenFail
    \/ MainReport
    \/ RegisterNewConnection
    \/ RegisterDisconnected
    \/ RegisterMessageReceived
    \/ AcceptOk

Next ==
    \/ Listen
    \/ ListenFail
    \/ MainReport
    \/ RegisterNewConnection
    \/ RegisterDisconnected
    \/ RegisterMessageReceived
    \/ AcceptOk
    \/ AcceptFail
    \/ PeerConnect
    \/ PeerSend
    \/ PeerClose

Spec == Init /\ [][Next]_vars

FairSpec == Init /\ [][Next]_vars /\ WF_vars(ServerStep)

\* ------------------------------------------- the EventBus through its API
\* the payload shape each event type carries by convention
Payloads(eventType) ==
    CASE eventType \in {"new-connection", "disconnected"} -> {ConnData(c) : c \in Conns}
      [] eventType = "message-received" -> {StrData(m) : m \in Msgs}
      [] OTHER -> {NoData}

RECURSIVE SumLen(_, _)
SumLen(f, S) ==
    IF S = {} THEN 0
    ELSE LET t == CHOOSE x \in S : TRUE IN Len(f[t]) + SumLen(f, S \ {t})
RegCount == SumLen(regd, EventTypes)

\* NewChatServer()
InitBus ==
    /\ pc = "api"
    /\ handlers = EmptyMap
    /\ clients = {}
    /\ pending = {}
    /\ accepted = {}
    /\ inbuf = [c \in Conns |-> <<>>]
    /\ closed = {}
    /\ nerr = 0
    /\ rpc = [c \in Conns |-> "none"]
    /\ regd = NoRegs
    /\ life = NoLife
    /\ last = NoOp

\* eventBus.Register(eventType, handler)
BusRegister ==
    /\ RegCount < MaxRegs
    /\ \E eventType \in EventTypes :
         \E handler \in TestHandlers :
            /\ handlers' = Register(handlers, eventType, handler)
            /\ regd' = [regd EXCEPT ![eventType] = Append(@, handler)]
            /\ last' = Op("Register", 0, eventType, NoData, NoOrder, {},
                          St(handlers, clients))
    /\ UNCHANGED <<pc, clients, pending, accepted, inbuf, closed, nerr, rpc, life>>

\* eventBus.Dispatch(eventType, data), called from outside any handler
ApiDispatch(eventType, data, order, fail) ==
    LET st == Dispatch(St(handlers, clients), eventType, data, 0, order, fail)
    IN /\ clients' = st.clients
       /\ handlers' = st.handlers
       /\ life' = Tally(life, st.ev, accepted)
       /\ last' = Op("Dispatch", 0, eventType, data, order, fail, st)
       /\ UNCHANGED <<pc, pending, accepted, inbuf, closed, nerr, rpc, regd>>

BusDispatch ==
    \E eventType \in EventTypes :
      \E data \in Payloads(eventType) :
        IF eventType = "message-received"
        THEN \E order \in Orders(clients), fail \in SUBSET clients :
                ApiDispatch(eventType, data, order, fail)
        ELSE ApiDispatch(eventType, data, NoOrder, {})

NextBus ==
    \/ BusRegister
    \/ BusDispatch

SpecBus == InitBus /\ [][NextBus]_vars

\* ------------------------------------ the ChatServer as Start has wired it
\* ChatServer.Start lines 87-89
Wired ==
    Register(Register(Register(EmptyMap,
        "new-connection", "onNewConnection"),
        "disconnected", "onDisconnected"),
        "message-received", "onMessageReceived")
WiredRegs ==
    [t \in EventTypes |->
        CASE t = "new-connection" -> <<"onNewConnection">>
          [] t = "disconnected" -> <<"onDisconnected">>
          [] t = "message-received" -> <<"onMessageReceived">>
          [] OTHER -> <<>>]

InitServer ==
    /\ pc = "api"
    /\ handlers = Wired
    /\ clients = {}
    /\ pending = {}
    /\ accepted = {}
    /\ inbuf = [c \in Conns |-> <<>>]
    /\ closed = {}
    /\ nerr = 0
    /\ rpc = [c \in Conns |-> "none"]
    /\ regd = WiredRegs
    /\ life = NoLife
    /\ last = NoOp

DispatchNewConnection ==
    \E c \in Conns : ApiDispatch("new-connection", ConnData(c), NoOrder, {})

DispatchDisconnected ==
    \E c \in Conns : ApiDispatch("disconnected", ConnData(c), NoOrder, {})

DispatchMessageReceived ==
    \E m \in Msgs, order \in Orders(clients), fail \in SUBSET clients :
        ApiDispatch("message-received", StrData(m), order, fail)

DispatchOther ==
    ApiDispatch("other", NoData, NoOrder, {})

NextServer ==
    \/ DispatchNewConnection
    \/ DispatchDisconnected
    \/ DispatchMessageReceived
    \/ DispatchOther

SpecServer == InitServer /\ [][NextServer]_vars

\* ------------------------------------------------ Client.Start goroutines
Readers == 1..NumReaders
Min(a, b) == IF a < b THEN a ELSE b

\* go NewClient(conn, eventBus).Start() on a fresh connection
GoClientStart ==
    \E c \in Readers \ (accepted \cup pending) :
        /\ accepted' = accepted \cup {c}
        /\ rpc' = [rpc EXCEPT ![c] = "start"]
        /\ UNCHANGED <<pc, handlers, clients, pending, inbuf, closed, nerr, regd, life, last>>

\* Client.Start line 137: c.eventBus.Dispatch("new-connection", c.conn)
ClientNewConnection ==
    \E c \in Readers :
        /\ rpc[c] = "start"
        /\ LET st == Dispatch(St(handlers, clients), "new-connection", ConnData(c),
                              0, NoOrder, {})
           IN /\ clients' = st.clients
              /\ handlers' = st.handlers
              /\ life' = Tally(life, st.ev, accepted)
              /\ last' = Op("ClientNewConnection", c, "new-connection", ConnData(c),
                            NoOrder, {}, st)
        /\ rpc' = [rpc EXCEPT ![c] = "read"]
        /\ UNCHANGED <<pc, pending, accepted, inbuf, closed, nerr, regd>>

\* the broadcast leaves out the connection the message was read from
ClientRead_exclude ==
    \E c \in Readers :
        /\ rpc[c] = "read"
        /\ \E data \in Strings(BufSize) :
            LET n == Len(data)
                buf == [i \in 1..BufSize |-> IF i <= n THEN data[i] ELSE 0]
                msg == StringOf(buf, n)
            IN \E order \in Orders(clients \ {c}), fail \in SUBSET clients :
                    LET st == Dispatch(St(handlers, clients), "message-received",
                                       StrData(msg), 0, order, fail)
                    IN /\ clients' = st.clients
                       /\ handlers' = st.handlers
                       /\ life' = Tally(life, st.ev, accepted)
                       /\ last' = Op("ClientRead", c, "message-received",
                                     StrData(data), order, fail, st)
        /\ UNCHANGED <<pc, pending, accepted, inbuf, closed, nerr, rpc, regd>>

\* the new-connection dispatch sits inside the loop, before the Read
ReadLoop_register(c, keep) ==
    /\ rpc[c] = "read"
    /\ \E data \in Strings(IF keep THEN Min(BufSize, MaxStream - Len(life[c].rd))
                                   ELSE BufSize) :
        LET n == Len(data)
            buf == [i \in 1..BufSize |-> IF i <= n THEN data[i] ELSE 0]
            msg == StringOf(buf, n)
            st0 == Dispatch(St(handlers, clients), "new-connection", ConnData(c),
                            0, NoOrder, {})
        IN \E order \in Orders(st0.clients), fail \in SUBSET st0.clients :
                LET st == Dispatch(st0, "message-received",
                                   StrData(msg), 0, order, fail)
                    l1 == Tally(life, st.ev, accepted)
                IN /\ clients' = st.clients
                   /\ handlers' = st.handlers
                   /\ life' = IF keep
                              THEN [l1 EXCEPT ![c].rd = @ \o data,
                                              ![c].pay = @ \o Payload(st.ev)]
                              ELSE l1
                   /\ last' = Op("ClientRead", c, "message-received",
                                 StrData(data), order, fail, st)
    /\ UNCHANGED <<pc, pending, accepted, inbuf, closed, nerr, rpc, regd>>

\* Client.Start lines 141-148, one pass of the loop with a successful Read:
\* Read fills buf[0:n] with the n > 0 bytes of data (the bytes past n are
\* never looked at); msg := string(buf[:n]); Dispatch("message-received", msg).
\* With keep, the bytes read and the payloads dispatched are added to the
\* lifetime history of c, and c reads at most MaxStream bytes.
ReadLoop(c, keep) ==
    /\ rpc[c] = "read"
    /\ \E data \in Strings(IF keep THEN Min(BufSize, MaxStream - Len(life[c].rd))
                                   ELSE BufSize) :
        LET n == Len(data)
            buf == [i \in 1..BufSize |-> IF i <= n THEN data[i] ELSE 0]
            msg == StringOf(buf, n)
        IN \E order \in Orders(clients), fail \in SUBSET clients :
                LET st == Dispatch(St(handlers, clients), "message-received",
                                   StrData(msg), 0, order, fail)
                    l1 == Tally(life, st.ev, accepted)
                IN /\ clients' = st.clients
                   /\ handlers' = st.handlers
                   /\ life' = IF keep
                              THEN [l1 EXCEPT ![c].rd = @ \o data,
                                              ![c].pay = @ \o Payload(st.ev)]
                              ELSE l1
                   /\ last' = Op("ClientRead", c, "message-received",
                                 StrData(data), order, fail, st)
    /\ UNCHANGED <<pc, pending, accepted, inbuf, closed, nerr, rpc, regd>>

ClientRead ==
    \E c \in Readers : ReadLoop(c, FALSE)

\* the break is missing: the loop reads again after the error
ClientReadErr_nobreak ==
    \E c \in Readers :
        /\ rpc[c] = "read"
        /\ LET st == Dispatch(St(handlers, clients), "disconnected", ConnData(c),
                              0, NoOrder, {})
           IN /\ clients' = st.clients
              /\ handlers' = st.handlers
              /\ life' = Tally(life, st.ev, accepted)
              /\ last' = Op("ClientReadErr", c, "disconnected", ConnData(c),
                            NoOrder, {}, st)
        /\ UNCHANGED <<pc, pending, accepted, inbuf, closed, nerr, rpc, regd>>

\* Client.Start lines 142-145: Read returns an error or end of stream:
\* Dispatch("disconnected", c.conn); break
ClientReadErr ==
    \E c \in Readers :
        /\ rpc[c] = "read"
        /\ LET st == Dispatch(St(handlers, clients), "disconnected", ConnData(c),
                              0, NoOrder, {})
           IN /\ clients' = st.clients
              /\ handlers' = st.handlers
              /\ life' = Tally(life, st.ev, accepted)
              /\ last' = Op("ClientReadErr", c, "disconnected", ConnData(c),
                            NoOrder, {}, st)
        /\ rpc' = [rpc EXCEPT ![c] = "done"]
        /\ UNCHANGED <<pc, pending, accepted, inbuf, closed, nerr, regd>>

NextClient ==
    \/ GoClientStart
    \/ ClientNewConnection
    \/ ClientRead
    \/ ClientReadErr

SpecClient == InitServer /\ [][NextClient]_vars

\* ------------------------------------------------- one reader loop's stream
\* The reader loop of connection 1, with its stream recorded.
StreamRead ==
    ReadLoop(1, TRUE)

NextStream ==
    \/ GoClientStart
    \/ ClientNewConnection
    \/ StreamRead
    \/ ClientReadErr

SpecStream == InitServer /\ [][NextStream]_vars

\* ================================================================ claims
Ev == last.ev
Calls == {i \in 1..Len(Ev) : Ev[i].k = "call"}
WritesTo(c) == {i \in 1..Len(Ev) : Ev[i].k = "write" /\ Ev[i].conn = c}
Outputs == {i \in 1..Len(Ev) : Ev[i].k \in {"write", "print"}}
DisconnectCalls ==
    {i \in 1..Len(Ev) : Ev[i].k = "call" /\ Ev[i].h = "onDisconnected"}
Broadcast == last.op = "Dispatch" /\ last.type = "message-received"

\* C1 (FairSpec): whenever a connection that is in the registry has bytes
\* sent by its peer, those bytes are eventually dispatched as a
\* message-received event read from that connection (and broadcast).
C1_Relay ==
    \A c \in Conns :
        (c \in clients /\ inbuf[c] # <<>>)
            ~> (last.op = "ClientRead" /\ last.type = "message-received" /\ last.by = c)

\* C2 (SpecServer): after one message-received dispatch with payload M on a
\* registry of N connections, every connection whose write succeeded was
\* written exactly the bytes of M exactly once and is still a member; every
\* connection whose write failed is not a member.
C2_BroadcastComplete ==
    Broadcast =>
        \A c \in last.pre :
            IF c \in last.fail
            THEN c \notin clients
            ELSE /\ Cardinality(WritesTo(c)) = 1
                 /\ \A i \in WritesTo(c) :
                        Ev[i].ok /\ Ev[i].bytes = AsString(last.data)
                 /\ c \in clients
C2_Witness ==
    /\ Broadcast
    /\ Cardinality(last.pre) = NumConns
    /\ last.fail # {}
    /\ last.pre \ last.fail # {}

\* C3 (SpecServer): a failed write inside the broadcast is followed at once
\* by a disconnected dispatch for exactly that connection, only the failing
\* connections are removed, and every member of the registry is still written
\* to, whatever the failing subset and the iteration order.
C3_FailureDoesNotAbort ==
    Broadcast =>
        /\ \A c \in last.pre : WritesTo(c) # {}
        /\ \A c \in last.pre \cap last.fail :
              \E i \in WritesTo(c) :
                 /\ ~Ev[i].ok
                 /\ i + 1 \in DisconnectCalls
                 /\ Ev[i + 1].type = "disconnected"
                 /\ AsConn(Ev[i + 1].data) = c
        /\ \A i \in DisconnectCalls :
              /\ i > 1
              /\ Ev[i - 1].k = "write"
              /\ ~Ev[i - 1].ok
              /\ Ev[i - 1].conn = AsConn(Ev[i].data)
        /\ Cardinality(DisconnectCalls) = Cardinality(last.pre \cap last.fail)
        /\ clients = last.pre \ last.fail
C3_Witness ==
    /\ Broadcast
    /\ Cardinality(last.pre) = NumConns
    /\ Cardinality(last.fail) = 2
    /\ last.order[1] \in last.fail
    /\ last.order[NumConns] \in last.fail

\* C4 (SpecServer): after a new-connection dispatch for C the registry
\* contains C; after a disconnected dispatch for C it does not; a disconnected
\* dispatch for a connection that is not registered leaves the registry unchanged.
C4_Membership ==
    /\ (last.op = "Dispatch" /\ last.type = "new-connection") =>
          /\ AsConn(last.data) \in clients
          /\ clients = last.pre \cup {AsConn(last.data)}
    /\ (last.op = "Dispatch" /\ last.type = "disconnected") =>
          /\ AsConn(last.data) \notin clients
          /\ clients = last.pre \ {AsConn(last.data)}
          /\ (AsConn(last.data) \notin last.pre => clients = last.pre)
C4_Witness ==
    /\ last.op = "Dispatch"
    /\ last.type = "disconnected"
    /\ AsConn(last.data) \in last.pre
    /\ Cardinality(last.pre) >= 2

\* C5 (SpecBus): after k Register(T, h_i) calls, one Dispatch(T, payload)
\* invokes the k handlers once each, in registration order, each with an
\* Event whose Type is T and whose Data is payload.
C5_DispatchOrder ==
    last.op = "Dispatch" =>
        /\ Len(Ev) = Len(regd[last.type])
        /\ \A i \in 1..Len(Ev) :
              /\ Ev[i].k = "call"
              /\ Ev[i].h = regd[last.type][i]
              /\ Ev[i].type = last.type
              /\ SameData(Ev[i].data, last.data)
C5_Witness ==
    /\ last.op = "Dispatch"
    /\ Len(regd[last.type]) >= 2
    /\ regd[last.type][1] # regd[last.type][2]
    /\ Len(Ev) >= 2

\* C6 (SpecServer): a dispatch of an event type with no registered handler
\* invokes no handler, creates no entry for the type in the handler table,
\* and leaves the handler table and the registry unchanged.
C6_UnknownTypeNoOp ==
    (last.op = "Dispatch" /\ Lookup(last.preH, last.type) = <<>>) =>
        /\ Ev = <<>>
        /\ last.type \notin DOMAIN handlers
        /\ handlers = last.preH
        /\ clients = last.pre
C6_Witness ==
    /\ last.op = "Dispatch"
    /\ last.type = "other"
    /\ last.type \notin DOMAIN last.preH
    /\ clients # {}

\* C7 (SpecServer): a disconnected dispatch repeated for the same, already
\* removed connection changes neither the registry nor any observable output
\* (no write, no disconnect notice).
C7_DisconnectIdempotent ==
    (/\ last.op = "Dispatch"
     /\ last.type = "disconnected"
     /\ last.again
     /\ AsConn(last.data) \notin last.pre) =>
        /\ clients = last.pre
        /\ Outputs = {}

\* C8 (SpecClient): when a message read from connection A is dispatched
\* while A is in the registry, A itself is written the message: the
\* connections written to are the whole registry.
C8_OriginatorIncluded ==
    (last.op = "ClientRead" /\ last.by \in last.pre) =>
        /\ \E i \in WritesTo(last.by) : Ev[i].bytes = AsString(last.data)
        /\ \A c \in last.pre : WritesTo(c) # {}
C8_Witness ==
    /\ last.op = "ClientRead"
    /\ last.by \in last.pre
    /\ Cardinality(last.pre) >= 2
    /\ last.by \notin last.fail

\* C9 (Spec): every successful accept of C dispatches new-connection for C,
\* starts a reader loop for C, and leaves the accept loop accepting.
C9_AcceptStartsReader ==
    last.op = "AcceptOk" =>
        /\ \E i \in Calls : Ev[i].type = "new-connection"
                            /\ AsConn(Ev[i].data) = AsConn(last.data)
        /\ rpc[AsConn(last.data)] # "none"
        /\ pc = "accept"

\* C10 (Spec): a failed accept dispatches nothing, leaves the registry and
\* the handler table unchanged and the loop at the next accept; a later
\* successful accept is registered; Start returns only when listening failed.
C10_AcceptFailNonFatal ==
    /\ last.op = "AcceptFail" =>
          /\ Calls = {}
          /\ clients = last.pre
          /\ handlers = last.preH
          /\ pc = "accept"
    /\ (last.op = "AcceptOk" /\ nerr > 0) => AsConn(last.data) \in clients
    /\ pc \in {"returned", "exited"} =>
          /\ last.op \in {"ListenFail", "MainReport"}
          /\ nerr = 0
          /\ handlers = EmptyMap
C10_Witness ==
    /\ nerr > 0
    /\ last.op = "AcceptOk"
    /\ AsConn(last.data) \in clients
    /\ pc = "accept"

Writes == {i \in 1..Len(Ev) : Ev[i].k = "write"}
Prints(text) == {i \in 1..Len(Ev) : Ev[i].k = "print" /\ Ev[i].text = text}

\* C11 (Spec): when binding the listening endpoint fails, Start returns
\* without registering a handler, accepting a connection or dispatching an
\* event, and main reports the error and exits without serving.
C11_ListenFailFatal ==
    /\ last.op = "ListenFail" => (pc = "returned" /\ Ev = <<>>)
    /\ pc \in {"returned", "exited"} =>
          /\ handlers = EmptyMap
          /\ regd = NoRegs
          /\ clients = {}
          /\ pending = {}
          /\ accepted = {}
          /\ \A c \in Conns : life[c].newc = 0
          /\ Calls = {}
    /\ pc = "exited" =>
          /\ last.op = "MainReport"
          /\ Prints("Error starting server") # {}
C11_Witness ==
    /\ pc = "exited"
    /\ last.op = "MainReport"
    /\ Prints("Error starting server") # {}

\* C12 (SpecClient): a reader loop leaves its reading state only by a failed
\* read, which dispatches disconnected for its own connection (removing it)
\* and ends the loop; a failed read always ends it; an ended loop dispatches
\* nothing more; being removed from the registry by another loop's failed
\* broadcast write does not end the loop.
C12_ReaderLoopEnds ==
    [][\A c \in Readers :
        /\ (rpc[c] = "read" /\ rpc'[c] # "read") =>
              /\ rpc'[c] = "done"
              /\ last'.op = "ClientReadErr"
              /\ last'.by = c
              /\ \E i \in 1..Len(last'.ev) :
                    /\ last'.ev[i].k = "call"
                    /\ last'.ev[i].h = "onDisconnected"
                    /\ AsConn(last'.ev[i].data) = c
              /\ c \notin clients'
        /\ (rpc[c] = "read" /\ last'.op = "ClientReadErr" /\ last'.by = c) =>
              rpc'[c] = "done"
        /\ rpc[c] = "done" =>
              /\ rpc'[c] = "done"
              /\ (last' # last => last'.by # c)
        /\ (rpc[c] = "read" /\ c \in clients /\ c \notin clients' /\ last'.by # c) =>
              rpc'[c] = "read"
      ]_vars
C12_Witness ==
    \E c, d \in Readers :
        /\ c # d
        /\ rpc[c] = "done"
        /\ last.op = "ClientReadErr"
        /\ last.by = c
        /\ rpc[d] = "read"
        /\ d \notin clients
        /\ life[d].disc = 1

\* C13 (SpecClient): over a connection's lifetime the disconnected event is
\* handled exactly once for it, whether it was reached by a failed broadcast
\* write or by a failed read.
C13_DisconnectedOnce ==
    \A c \in accepted :
        /\ life[c].disc <= 1
        /\ (rpc[c] = "done" => life[c].disc = 1)

C15_RegisteredOnce ==
    /\ \A c \in Conns : life[c].newc = (IF c \in accepted THEN 1 ELSE 0)
    /\ clients \subseteq accepted
    /\ Cardinality(clients) <= Cardinality(accepted)
C15_Witness ==
    /\ Cardinality(accepted) >= 2
    /\ \A c \in accepted : life[c].newc = 1 /\ c \in clients
    /\ last.op = "AcceptOk"

\* C16 (SpecClient): the dispatch is synchronous, nested dispatches included:
\* the message handler runs inside the dispatch, the disconnected handler of a
\* failed write runs right after that write, the failing connection is out of
\* the registry at every later write of the broadcast, and when the dispatch
\* returns to the reader loop.
C16_SynchronousDispatch ==
    last.op = "ClientRead" =>
        /\ Len(Ev) >= 1
        /\ Ev[1].k = "call" /\ Ev[1].h = "onMessageReceived" /\ Ev[1].depth = 0
        /\ \A i \in Writes :
              ~Ev[i].ok =>
                 /\ i + 1 <= Len(Ev)
                 /\ Ev[i + 1].k = "call"
                 /\ Ev[i + 1].h = "onDisconnected"
                 /\ Ev[i + 1].depth = 1
                 /\ AsConn(Ev[i + 1].data) = Ev[i].conn
                 /\ \A j \in Writes : j > i => Ev[i].conn \notin Ev[j].reg
                 /\ Ev[i].conn \notin clients
C16_Witness ==
    /\ last.op = "ClientRead"
    /\ Cardinality(last.pre) >= 2
    /\ last.order[1] \in last.fail
    /\ last.order[2] \notin last.fail
    /\ \E j \in Writes : Ev[j].conn = last.order[2]

\* C17 (Spec): several concurrent tasks access the registry: once the
\* registry has a member, a running reader loop is a task beside the accept
\* loop, so that a registry mutation can fall inside a running broadcast.
RegistryTasks ==
    (IF pc \in {"reg1", "reg2", "reg3", "accept"} THEN {0} ELSE {})
        \cup {c \in Conns : rpc[c] \in {"start", "read"}}
C17_ConcurrentAccess ==
    clients # {} => Cardinality(RegistryTasks) >= 2

\* C18 (Spec): the three Register calls complete before the first accept
\* and before any dispatch; from then on the handler table holds exactly one
\* handler for each of the three event types and does not change.
C18_RegisteredAtStartup ==
    /\ pc \in {"main", "reg1", "reg2", "reg3"} =>
          /\ accepted = {}
          /\ clients = {}
          /\ nerr = 0
          /\ Calls = {}
          /\ last.op \notin {"AcceptOk", "AcceptFail"}
    /\ pc = "accept" =>
          /\ DOMAIN handlers = ServerTypes
          /\ handlers["new-connection"] = <<"onNewConnection">>
          /\ handlers["disconnected"] = <<"onDisconnected">>
          /\ handlers["message-received"] = <<"onMessageReceived">>
          /\ \A t \in EventTypes : regd[t] = Lookup(handlers, t)
C18_Witness ==
    /\ pc = "accept"
    /\ last.op = "AcceptOk"
    /\ nerr > 0
    /\ Cardinality(clients) >= 2

\* C19 (SpecStream): each successful read dispatches exactly one
\* message-received event whose payload is the bytes that read returned, at
\* most one chunk; the payloads one reader loop dispatched, concatenated in
\* order, are the byte stream read from its connection.
C19_PayloadIsReadBytes ==
    /\ last.op = "ClientRead" =>
          /\ Cardinality({i \in Calls : Ev[i].h = "onMessageReceived"}) = 1
          /\ Ev[1].k = "call" /\ Ev[1].h = "onMessageReceived"
          /\ Ev[1].type = "message-received"
          /\ AsString(Ev[1].data) = AsString(last.data)
          /\ Len(AsString(Ev[1].data)) \in 1..BufSize
    /\ \A c \in Conns : life[c].pay = life[c].rd
C19_Witness ==
    /\ last.op = "ClientRead"
    /\ last.by = 1
    /\ Len(life[1].rd) >= 3
    /\ Len(AsString(last.data)) = 1
    /\ life[1].rd[1] # life[1].rd[3]

====
